---- MODULE Spec2Model ----
(***************************************************************************)
(* Model of the file-intake pipeline of sam-app:                           *)
(*   upload-app/app/main.py   the Upload Service (FastAPI application)     *)
(*   process-app/app/main.py  the Change Processor (lambda_handler)        *)
(* Strings the code inspects or builds are sequences of one-character     *)
(* strings; Python values that the code probes for their shape are tagged  *)
(* records (None, str, dict).                                              *)
(***************************************************************************)
EXTENDS Integers, Sequences, FiniteSets, TLC

VARIABLES clock, s3, table, inv, procPc, event, idx, processed_records, ret, procLog

vars == <<clock, s3, table, inv, procPc, event, idx, processed_records, ret, procLog>>
uploadVars == <<clock, s3, table, inv>>
procVars == <<procPc, event, idx, processed_records, ret, procLog>>

(* ------------------------------ bounds -------------------------------- *)
\* concurrent invocations of the Upload Service, one request each
NumInv == 2
\* advances of the wall clock during a run
MaxTicks == 2
\* longest batch handed to the Change Processor
MaxBatch == 3

\* one advance of the wall clock, in microseconds (half a millisecond)
TickStep == 500

Invocations == 1 .. NumInv

(* --------------------------- Python values ---------------------------- *)
PyNone == [t |-> "none"]
PyStr(s) == [t |-> "str", s |-> s]
PyDict(f) == [t |-> "dict", d |-> f]
PyRaise(e) == [t |-> "raise", exc |-> e]
EmptyDict == PyDict([k \in {} |-> PyNone])
D1(k, v) == PyDict([x \in {k} |-> v])
D2(k1, v1, k2, v2) == PyDict([x \in {k1, k2} |-> IF x = k1 THEN v1 ELSE v2])

\* v.get(k, default); an exception on the way propagates
PyGet(v, k, default) ==
  IF v.t = "raise" THEN v
  ELSE IF v.t # "dict" THEN PyRaise("AttributeError")
  ELSE IF k \in DOMAIN v.d THEN v.d[k] ELSE default

\* v[k]
PyItem(v, k) ==
  IF v.t = "raise" THEN v
  ELSE IF v.t = "dict" THEN (IF k \in DOMAIN v.d THEN v.d[k] ELSE PyRaise("KeyError"))
  ELSE PyRaise("TypeError")

\* bool(v)
Truthy(v) ==
  CASE v.t = "none" -> FALSE
    [] v.t = "str" -> v.s # <<>>
    [] v.t = "dict" -> DOMAIN v.d # {}
    [] OTHER -> TRUE

IsSubSeq(a, b) ==
  \E i \in 0 .. (Len(b) - Len(a)) : \A j \in 1 .. Len(a) : b[i + j] = a[j]

(* ------------------------ Upload Service: text ------------------------ *)
DigitChars == <<"0", "1", "2", "3", "4", "5", "6", "7", "8", "9">>

RECURSIVE Pad(_, _)
\* n in decimal, zero-padded to w digits
Pad(n, w) == IF w = 0 THEN <<>> ELSE Pad(n \div 10, w - 1) \o <<DigitChars[(n % 10) + 1]>>

\* the instant of clock reading us (microseconds into the first second of the run)
\* strftime("%Y%m%d%H%M%S%f"): 14 digits of date and time, 6 of microseconds
Strftime(us) ==
  <<"2", "0", "2", "4", "0", "1", "0", "1", "0", "0", "0", "0", "0", "0">> \o Pad(us, 6)

\* s[:-3]
DropLast3(s) == IF Len(s) <= 3 THEN <<>> ELSE SubSeq(s, 1, Len(s) - 3)

CurrentTime(us) == DropLast3(Strftime(us))

\* datetime.now(timezone.utc).isoformat(): the fraction is left out when it is zero
IsoFormat(us) ==
  <<"2", "0", "2", "4", "-", "0", "1", "-", "0", "1", "T", "0", "0", ":", "0", "0", ":", "0", "0">>
  \o (IF us = 0 THEN <<>> ELSE <<".">> \o Pad(us, 6))
  \o <<"+", "0", "0", ":", "0", "0">>

\* posixpath.join(a, b): an absolute b discards a
Join2(a, b) ==
  IF b # <<>> /\ Head(b) = "/" THEN b
  ELSE IF a = <<>> \/ a[Len(a)] = "/" THEN a \o b
  ELSE a \o <<"/">> \o b

DESTINATION_SYSTEM_ID == <<"A", "0", "1">>

FilePathOf(user_id, current_time, filename) ==
  Join2(Join2(Join2(DESTINATION_SYSTEM_ID, user_id), current_time), filename)

(* ----------------------- Upload Service: inputs ----------------------- *)
\* request.scope as the hosting adapter fills it
ScopeWithClaims(claims) ==
  D1("aws.event", D1("requestContext", D1("authorizer", D1("jwt", D1("claims", claims)))))

\* no "aws.event" at all
ScopeNoEvent == EmptyDict
\* an authorizer entry that is null: the chain of .get calls raises
ScopeNullAuthorizer == D1("aws.event", D1("requestContext", D1("authorizer", PyNone)))
ScopeNoSub == ScopeWithClaims(EmptyDict)
ScopeSub(s) == ScopeWithClaims(D1("sub", PyStr(s)))

Subjects == {<<"u">>}
Scopes ==
  {ScopeNoEvent, ScopeNullAuthorizer, ScopeNoSub, ScopeSub(<<>>)} \cup {ScopeSub(s) : s \in Subjects}
Contents == {<<>>, <<"a">>}
FileNames == {<<"f">>, <<"/", "f">>}
Comments == {PyNone, PyStr(<<"c">>)}
S3Errors == {"ClientError"}
DynamoErrors == {"ClientError"}

\* POST bodies as the logging middleware meets them
ContentTypes == {"application/json", "multipart/form-data; boundary=x", ""}
Declares(content_type, what) ==
  \/ what = "application/json" /\ content_type = "application/json"
  \/ what = "multipart/form-data" /\ content_type = "multipart/form-data; boundary=x"
HttpRequests ==
  {[method |-> "POST", route |-> "upload", content_type |-> c, parses |-> b] :
     c \in ContentTypes, b \in BOOLEAN}
  \cup {[method |-> "GET", route |-> "health", content_type |-> "", parses |-> TRUE]}

(* ---------------------- Upload Service: operations -------------------- *)
\* names bound at module level of upload-app/app/main.py before a request is served
ModuleNames ==
  {"datetime", "os", "logging", "Optional", "Callable", "Awaitable", "boto3",
   "FastAPI", "Request", "HTTPException", "UploadFile", "File", "Form",
   "BaseHTTPMiddleware", "Response", "app", "s3_client", "dynamodb",
   "S3_BUCKET_NAME", "DYNAMODB_TABLE_NAME", "DESTINATION_SYSTEM_ID", "STAGE",
   "table", "CustomLoggingMiddleware", "upload_file", "health_check"}

NoDetail == [text |-> "", cause |-> ""]
NoResponse == [status |-> 0, body |-> [detail |-> NoDetail]]
HTTPException(status, text, cause) ==
  [status |-> status, body |-> [detail |-> [text |-> text, cause |-> cause]]]

IdleInvocation ==
  [pc |-> "idle", route |-> "none", endpoint |-> "none", dispatched |-> FALSE,
   log_data |-> PyNone,
   call_next |-> FALSE,
   scope |-> PyNone, file_content |-> <<>>, filename |-> <<>>,
   user_id |-> <<>>, current_time |-> <<>>, file_path |-> <<>>,
   s3_calls |-> 0, s3_result |-> "none", ddb_calls |-> 0, ddb_result |-> "none",
   log |-> <<>>, resp |-> NoResponse]

\* the chain of .get calls of line 84 and claims.get("sub")
ExtractUserId(scope) ==
  PyGet(PyGet(PyGet(PyGet(PyGet(PyGet(scope, "aws.event", EmptyDict),
    "requestContext", EmptyDict), "authorizer", EmptyDict), "jwt", EmptyDict),
    "claims", EmptyDict), "sub", PyNone)

AuthRejected_OnlyNone(user_id) == user_id.t = "raise" \/ user_id.t = "none"

\* "if not user_id: raise" and the except clause that turns any exception
\* (the HTTPException just raised among them) into the same 403
AuthRejected(user_id) == user_id.t = "raise" \/ ~Truthy(user_id)

ContentRejected_Never(file_content) == FALSE

\* "if not file_content"
ContentRejected(file_content) == file_content = <<>>

\* upload_file from its entry to the computed storage key (lines 83-99); the
\* invocation keeps of the request what the code has read when it leaves
UploadEntry(i, scope, file_content, filename, now) ==
  LET user_id == ExtractUserId(scope)
      got == [i EXCEPT !.route = "upload", !.endpoint = "upload_file", !.scope = scope]
  IN  IF AuthRejected(user_id)
        THEN [got EXCEPT !.pc = "done",
                         !.resp = HTTPException(403, "Could not validate user from token.", "")]
      ELSE IF ContentRejected(file_content)
        THEN [got EXCEPT !.pc = "done", !.user_id = user_id.s, !.file_content = file_content,
                         !.resp = HTTPException(400, "File content is empty.", "")]
      ELSE [got EXCEPT !.pc = "s3", !.user_id = user_id.s, !.file_content = file_content,
                       !.filename = filename,
                       !.current_time = CurrentTime(now),
                       !.file_path = FilePathOf(user_id.s, CurrentTime(now), filename)]

\* s3_client.put_object returned
OnS3Success(i) == [i EXCEPT !.pc = "ddb", !.s3_calls = @ + 1, !.s3_result = "ok"]

OnS3Failure_Retry(i, e) ==
  [i EXCEPT !.s3_calls = @ + 1, !.s3_result = "failed", !.log = Append(@, "error")]

OnS3Failure_Swallow(i, e) ==
  [i EXCEPT !.pc = "ddb", !.s3_calls = @ + 1, !.s3_result = "failed",
            !.log = Append(@, "error")]

\* s3_client.put_object raised e
OnS3Failure(i, e) ==
  [i EXCEPT !.pc = "done", !.s3_calls = @ + 1, !.s3_result = "failed",
            !.log = Append(@, "error"),
            !.resp = HTTPException(500, "Failed to upload file to S3: ", e)]

\* "comment or ''"
CommentOrEmpty(comment) == IF Truthy(comment) THEN comment.s ELSE <<>>

ItemToRegister(i, comment, now) ==
  [FilePath |-> i.file_path, UserID |-> i.user_id, Comment |-> CommentOrEmpty(comment),
   RegistrationDate |-> IsoFormat(now), DownloadCount |-> 0,
   DestinationSystemID |-> DESTINATION_SYSTEM_ID, IsDeleted |-> FALSE]

\* table.put_item returned, and upload_file returns its payload
OnPutItemSuccess(i) ==
  [i EXCEPT !.pc = "done", !.ddb_calls = @ + 1, !.ddb_result = "ok",
            !.resp = [status |-> 200,
                      body |-> [message |-> "File uploaded successfully.",
                                s3_path |-> i.file_path]]]

\* table.put_item raised e
OnPutItemFailure(i, e) ==
  [i EXCEPT !.pc = "done", !.ddb_calls = @ + 1, !.ddb_result = "failed",
            !.log = Append(@, "error"),
            !.resp = HTTPException(500, "Failed to register metadata in DynamoDB: ", e)]

\* an unconditional write under key k
Put(store, k, v) == [x \in DOMAIN store \cup {k} |-> IF x = k THEN v ELSE store[x]]

\* what the middleware gathers before it logs (lines 36-60)
LogData(r) ==
  [method |-> r.method, url |-> r.route, content_type |-> r.content_type,
   extra |-> IF r.method # "POST" THEN "none"
             ELSE IF Declares(r.content_type, "application/json")
               THEN (IF r.parses THEN "body" ELSE "error")
             ELSE IF Declares(r.content_type, "multipart/form-data")
               THEN (IF r.parses THEN "form" ELSE "error")
             ELSE "none"]

\* CustomLoggingMiddleware.dispatch: logger.info(log_data) looks the name logger up
DispatchResult(i, r) ==
  LET got == [i EXCEPT !.dispatched = TRUE, !.route = r.route, !.log_data = LogData(r)]
  IN  IF "logger" \in ModuleNames
        THEN [got EXCEPT !.pc = "call_next", !.call_next = TRUE, !.log = Append(@, "info")]
        ELSE [got EXCEPT !.pc = "done",
                         !.resp = [status |-> 500, body |-> [error |-> "NameError"]]]

\* the endpoint is entered by a call of the coroutine itself or from call_next
Enters(i, route) == i.pc = "idle" \/ (i.pc = "call_next" /\ i.route = route)

(* ------------------------ Upload Service: actions --------------------- *)
Tick ==
  /\ clock \div TickStep < MaxTicks
  /\ clock' = clock + TickStep
  /\ UNCHANGED <<s3, table, inv>>
  /\ UNCHANGED procVars

Dispatch(p) ==
  /\ inv[p].pc = "idle"
  /\ \E r \in HttpRequests : inv' = [inv EXCEPT ![p] = DispatchResult(inv[p], r)]
  /\ UNCHANGED <<clock, s3, table>>
  /\ UNCHANGED procVars

UploadFile(p) ==
  /\ Enters(inv[p], "upload")
  /\ \E scope \in Scopes, c \in Contents, f \in FileNames :
       inv' = [inv EXCEPT ![p] = UploadEntry(inv[p], scope, c, f, clock)]
  /\ UNCHANGED <<clock, s3, table>>
  /\ UNCHANGED procVars

S3PutObject(p) ==
  /\ inv[p].pc = "s3"
  /\ s3' = Put(s3, inv[p].file_path, inv[p].file_content)
  /\ inv' = [inv EXCEPT ![p] = OnS3Success(inv[p])]
  /\ UNCHANGED <<clock, table>>
  /\ UNCHANGED procVars

S3PutObjectFails(p) ==
  /\ inv[p].pc = "s3"
  /\ \E e \in S3Errors : inv' = [inv EXCEPT ![p] = OnS3Failure(inv[p], e)]
  /\ UNCHANGED <<clock, s3, table>>
  /\ UNCHANGED procVars

PutItem(p) ==
  /\ inv[p].pc = "ddb"
  /\ \E comment \in Comments :
       table' = Put(table, inv[p].file_path, ItemToRegister(inv[p], comment, clock))
  /\ inv' = [inv EXCEPT ![p] = OnPutItemSuccess(inv[p])]
  /\ UNCHANGED <<clock, s3>>
  /\ UNCHANGED procVars

PutItemFails(p) ==
  /\ inv[p].pc = "ddb"
  /\ \E e \in DynamoErrors : inv' = [inv EXCEPT ![p] = OnPutItemFailure(inv[p], e)]
  /\ UNCHANGED <<clock, s3, table>>
  /\ UNCHANGED procVars

HealthCheck(p) ==
  /\ Enters(inv[p], "health")
  /\ inv' = [inv EXCEPT ![p] = [@ EXCEPT !.pc = "done", !.route = "health",
                                         !.endpoint = "health_check",
                                         !.resp = [status |-> 200, body |-> [status |-> "ok"]]]]
  /\ UNCHANGED <<clock, s3, table>>
  /\ UNCHANGED procVars

(* ----------------------- Change Processor: inputs ---------------------- *)
INSERT == <<"I", "N", "S", "E", "R", "T">>
MODIFY == <<"M", "O", "D", "I", "F", "Y">>

\* the keys the handler tests with "in", spelled out for the test on a str
Chars(k) ==
  CASE k = "dynamodb" -> <<"d", "y", "n", "a", "m", "o", "d", "b">>
    [] k = "NewImage" -> <<"N", "e", "w", "I", "m", "a", "g", "e">>

\* a value in the change feed's field-tagged encoding
TagS(s) == D1("S", PyStr(s))
Image(user, path) == D2("UserID", user, "FilePath", path)
ChangeRecord(name, dyn) == D2("eventName", PyStr(name), "dynamodb", dyn)

PathA == <<"A", "0", "1", "/", "u", "/", "0", "/", "f">>
PathB == <<"A", "0", "1", "/", "v", "/", "1", "/", "g">>
ImageA == Image(TagS(<<"u">>), TagS(PathA))
ImageB == Image(TagS(<<"v">>), TagS(PathB))

InsertA == ChangeRecord(INSERT, D1("NewImage", ImageA))
InsertB == ChangeRecord(INSERT, D1("NewImage", ImageB))
ModifyA == ChangeRecord(MODIFY, D1("NewImage", ImageA))
NoEventName == D1("dynamodb", D1("NewImage", ImageA))
NoDynamodb == D1("eventName", PyStr(INSERT))
NoNewImage == ChangeRecord(INSERT, D1("Keys", D1("FilePath", TagS(PathA))))
NoFilePath == ChangeRecord(INSERT, D1("NewImage", D1("UserID", TagS(<<"u">>))))
EmptyUserID == ChangeRecord(INSERT, D1("NewImage", Image(TagS(<<>>), TagS(PathA))))
\* values that are not of the mapping shape
PlainUserID == ChangeRecord(INSERT, D1("NewImage", Image(PyStr(<<"u">>), TagS(PathA))))
NullNewImage == ChangeRecord(INSERT, D1("NewImage", PyNone))
StrDynamodb == ChangeRecord(INSERT, PyStr(<<"x">>))
NullDynamodb == ChangeRecord(INSERT, PyNone)

RecordKinds ==
  {InsertA, InsertB, ModifyA, NoEventName, NoDynamodb, NoNewImage, NoFilePath,
   EmptyUserID, PlainUserID, NullNewImage, StrDynamodb, NullDynamodb}

Batches == UNION {[1 .. n -> RecordKinds] : n \in 0 .. MaxBatch}

(* --------------------- Change Processor: operations ------------------- *)
\* "k in v" raises TypeError on a value that is no container
ContainsRaises(v) == v.t = "none"
Contains(k, v) ==
  CASE v.t = "dict" -> k \in DOMAIN v.d
    [] v.t = "str" -> IsSubSeq(Chars(k), v.s)
    [] OTHER -> FALSE

IsInsert_AnyEvent(record) == TRUE

\* record.get('eventName') == 'INSERT'
IsInsert(record) == PyGet(record, "eventName", PyNone) = PyStr(INSERT)

\* new_image.get(field, {}).get('S')
Extract(new_image, field) == PyGet(PyGet(new_image, field, EmptyDict), "S", PyNone)

\* one pass of the loop body (lines 22-62) over one record: what it does with it
RecordOutcome(record) ==
  IF ~Contains("dynamodb", record) THEN [kind |-> "malformed"]
  ELSE IF ContainsRaises(record.d["dynamodb"]) THEN [kind |-> "raised", exc |-> "TypeError"]
  ELSE IF ~Contains("NewImage", record.d["dynamodb"]) THEN [kind |-> "malformed"]
  ELSE IF ~IsInsert(record) THEN [kind |-> "not_insert"]
  ELSE LET new_image == PyItem(PyItem(record, "dynamodb"), "NewImage")
           user_id == Extract(new_image, "UserID")
           file_path == Extract(new_image, "FilePath")
       IN  IF user_id.t = "raise" THEN [kind |-> "caught", exc |-> user_id.exc]
           ELSE IF file_path.t = "raise" THEN [kind |-> "caught", exc |-> file_path.exc]
           ELSE IF ~Truthy(user_id) \/ ~Truthy(file_path) THEN [kind |-> "missing"]
           ELSE [kind |-> "payload",
                 downstream_payload |-> [user_id |-> user_id, file_path |-> file_path]]

\* f'Successfully processed {n} records.'
Message(n) == [text |-> "Successfully processed {} records.", n |-> n]

\* the summary lambda_handler returns (lines 67-75)
Summary(records) ==
  [t |-> "return", statusCode |-> 200,
   body |-> [message |-> Message(Len(records)), processed_data |-> records]]

AtRecord(kind) ==
  /\ procPc = "loop"
  /\ idx <= Len(event)
  /\ RecordOutcome(event[idx]).kind = kind

(* ---------------------- Change Processor: actions --------------------- *)
Invoke ==
  /\ procPc = "idle"
  /\ \E batch \in Batches : event' = batch
  /\ procPc' = "loop"
  /\ procLog' = Append(procLog, "info")
  /\ UNCHANGED <<idx, processed_records, ret>>
  /\ UNCHANGED uploadVars

SkipMalformed ==
  /\ AtRecord("malformed")
  /\ idx' = idx + 1
  /\ procLog' = Append(procLog, "warning")
  /\ UNCHANGED <<procPc, event, processed_records, ret>>
  /\ UNCHANGED uploadVars

SkipOtherEvent ==
  /\ AtRecord("not_insert")
  /\ idx' = idx + 1
  /\ UNCHANGED <<procPc, event, processed_records, ret, procLog>>
  /\ UNCHANGED uploadVars

SkipMissingField ==
  /\ AtRecord("missing")
  /\ idx' = idx + 1
  /\ procLog' = Append(procLog, "warning")
  /\ UNCHANGED <<procPc, event, processed_records, ret>>
  /\ UNCHANGED uploadVars

AppendPayload ==
  /\ AtRecord("payload")
  /\ processed_records' = Append(processed_records, RecordOutcome(event[idx]).downstream_payload)
  /\ idx' = idx + 1
  /\ procLog' = Append(procLog, "info")
  /\ UNCHANGED <<procPc, event, ret>>
  /\ UNCHANGED uploadVars

CatchException ==
  /\ AtRecord("caught")
  /\ idx' = idx + 1
  /\ procLog' = procLog \o <<"error", "error">>
  /\ UNCHANGED <<procPc, event, processed_records, ret>>
  /\ UNCHANGED uploadVars

\* an exception outside the try block leaves lambda_handler
RaiseUncaught ==
  /\ AtRecord("raised")
  /\ procPc' = "done"
  /\ ret' = PyRaise(RecordOutcome(event[idx]).exc)
  /\ UNCHANGED <<event, idx, processed_records, procLog>>
  /\ UNCHANGED uploadVars

Return ==
  /\ procPc = "loop"
  /\ idx > Len(event)
  /\ procPc' = "done"
  /\ ret' = Summary(processed_records)
  /\ procLog' = Append(procLog, "info")
  /\ UNCHANGED <<event, idx, processed_records>>
  /\ UNCHANGED uploadVars

Init ==
  /\ clock = 0
  /\ s3 = <<>>
  /\ table = <<>>
  /\ inv = [p \in Invocations |-> IdleInvocation]
  /\ procPc = "idle"
  /\ event = <<>>
  /\ idx = 1
  /\ processed_records = <<>>
  /\ ret = PyNone
  /\ procLog = <<>>

Next ==
  \/ Tick
  \/ \E p \in Invocations : Dispatch(p)
  \/ \E p \in Invocations : UploadFile(p)
  \/ \E p \in Invocations : S3PutObject(p)
  \/ \E p \in Invocations : S3PutObjectFails(p)
  \/ \E p \in Invocations : PutItem(p)
  \/ \E p \in Invocations : PutItemFails(p)
  \/ \E p \in Invocations : HealthCheck(p)

Spec == Init /\ [][Next]_vars

NextProc ==
  \/ Invoke
  \/ SkipMalformed
  \/ SkipOtherEvent
  \/ SkipMissingField
  \/ AppendPayload
  \/ CatchException
  \/ RaiseUncaught
  \/ Return

SpecProc == Init /\ [][NextProc]_vars

(* ------------------------------- claims ------------------------------- *)
\* the value under a key, None where the mapping or the key is missing
Walk(v, k) == IF v.t = "dict" /\ k \in DOMAIN v.d THEN v.d[k] ELSE PyNone
ClaimedSub(scope) ==
  Walk(Walk(Walk(Walk(Walk(Walk(scope, "aws.event"), "requestContext"), "authorizer"),
    "jwt"), "claims"), "sub")
NoIdentityClaim(scope) == ClaimedSub(scope) = PyNone \/ ClaimedSub(scope) = PyStr(<<>>)

Ran(p) == inv[p].endpoint = "upload_file"
S3Written(p) == Ran(p) /\ inv[p].s3_result = "ok"

TemplateKey(d, u, t, f) == d \o <<"/">> \o u \o <<"/">> \o t \o <<"/">> \o f

\* C1: an upload with a subject and content whose two writes succeed returns
\* s3_path = {destinationSystemId}/{userId}/{timestamp}/{fileName}, and the
\* metadata store then holds a record under that key with the caller's UserID,
\* DownloadCount 0 and IsDeleted false.
C1_ReturnedKeyIsTemplate ==
  \A p \in Invocations :
    (/\ Ran(p)
     /\ inv[p].pc = "done"
     /\ ~NoIdentityClaim(inv[p].scope)
     /\ inv[p].file_content # <<>>
     /\ inv[p].s3_result = "ok"
     /\ inv[p].ddb_result = "ok")
    => /\ inv[p].resp.status = 200
       /\ inv[p].resp.body.s3_path =
            TemplateKey(DESTINATION_SYSTEM_ID, ClaimedSub(inv[p].scope).s,
                        inv[p].current_time, inv[p].filename)
       /\ inv[p].resp.body.s3_path \in DOMAIN table
       /\ table[inv[p].resp.body.s3_path].FilePath = inv[p].resp.body.s3_path
       /\ table[inv[p].resp.body.s3_path].UserID = ClaimedSub(inv[p].scope).s
       /\ table[inv[p].resp.body.s3_path].DownloadCount = 0
       /\ table[inv[p].resp.body.s3_path].IsDeleted = FALSE

\* C2: an upload with no identity claim ends in 403 and makes no blob-store
\* and no metadata-store write.
C2_NoIdentityIs403NoWrites ==
  \A p \in Invocations :
    (Ran(p) /\ NoIdentityClaim(inv[p].scope))
    => /\ inv[p].pc = "done"
       /\ inv[p].resp.status = 403
       /\ inv[p].s3_calls = 0
       /\ inv[p].ddb_calls = 0

C2_Witness ==
  \E p \in Invocations :
    /\ Ran(p)
    /\ inv[p].scope = ScopeSub(<<>>)
    /\ inv[p].resp.status = 403
    /\ s3 # <<>>
    /\ table # <<>>

\* C3: an authenticated upload whose file content is empty ends in 400 and
\* makes no blob-store and no metadata-store write.
C3_EmptyContentIs400NoWrites ==
  \A p \in Invocations :
    (Ran(p) /\ ~NoIdentityClaim(inv[p].scope) /\ inv[p].file_content = <<>>)
    => /\ inv[p].pc = "done"
       /\ inv[p].resp.status = 400
       /\ inv[p].s3_calls = 0
       /\ inv[p].ddb_calls = 0

C3_Witness ==
  \E p \in Invocations :
    /\ Ran(p)
    /\ ~NoIdentityClaim(inv[p].scope)
    /\ inv[p].file_content = <<>>
    /\ inv[p].resp.status = 400
    /\ s3 # <<>>
    /\ table # <<>>

\* C6: no two uploads whose blob write succeeded wrote under the same
\* FilePath (none overwrites an earlier one), and no two successful uploads
\* return the same FilePath.
C6_FilePathUnique ==
  \A p, q \in Invocations :
    (p # q /\ S3Written(p) /\ S3Written(q)) => inv[p].file_path # inv[q].file_path

\* C7: the logging middleware never aborts a request: every dispatched call
\* has its log entry emitted, an unparseable POST body recorded in it as an
\* error field, and call_next reached.
C7_DispatchReachesCallNext ==
  \A p \in Invocations :
    inv[p].dispatched
    => /\ inv[p].call_next
       /\ Len(inv[p].log) > 0
       /\ inv[p].log[1] = "info"

\* C8: a GET of the health endpoint through the registered middleware ends in
\* 200 {"status": "ok"} and writes to neither store.
C8_HealthThroughMiddlewareIs200 ==
  \A p \in Invocations :
    (inv[p].dispatched /\ inv[p].route = "health" /\ inv[p].pc = "done")
    => /\ inv[p].resp.status = 200
       /\ inv[p].resp.body = [status |-> "ok"]
       /\ inv[p].s3_calls = 0
       /\ inv[p].ddb_calls = 0

\* C9: when the blob write fails the request ends in 500, the blob write was
\* attempted once and no metadata write is attempted.
C9_BlobFailureIs500NoRetry ==
  \A p \in Invocations :
    (Ran(p) /\ inv[p].s3_result = "failed")
    => /\ inv[p].pc = "done"
       /\ inv[p].resp.status = 500
       /\ inv[p].s3_calls = 1
       /\ inv[p].ddb_calls = 0
       /\ inv[p].ddb_result = "none"

C9_Witness ==
  \E p \in Invocations :
    /\ Ran(p)
    /\ inv[p].s3_result = "failed"
    /\ inv[p].resp.status = 500
    /\ table # <<>>

\* C10: every FilePath of the metadata store is a key of the blob store, a
\* metadata write being attempted only after the blob write under the same
\* key succeeded.
C10_RecordsHaveBlobs ==
  /\ \A k \in DOMAIN table : k \in DOMAIN s3 /\ table[k].FilePath = k
  /\ \A p \in Invocations : inv[p].ddb_calls > 0 => inv[p].s3_result = "ok"

\* a record with its blob, beside a blob whose metadata write failed
C10_Witness ==
  /\ table # <<>>
  /\ \E p \in Invocations :
       /\ inv[p].ddb_result = "failed"
       /\ inv[p].file_path \in DOMAIN s3
       /\ inv[p].file_path \notin DOMAIN table

HasS(image, field) ==
  /\ field \in DOMAIN image.d
  /\ image.d[field].t = "dict"
  /\ "S" \in DOMAIN image.d[field].d
  /\ image.d[field].d["S"].t = "str"
  /\ image.d[field].d["S"].s # <<>>

\* an INSERT event whose new image carries UserID and FilePath
WellFormedInsert(r) ==
  /\ r.t = "dict"
  /\ "eventName" \in DOMAIN r.d
  /\ r.d["eventName"] = PyStr(INSERT)
  /\ "dynamodb" \in DOMAIN r.d
  /\ r.d["dynamodb"].t = "dict"
  /\ "NewImage" \in DOMAIN r.d["dynamodb"].d
  /\ r.d["dynamodb"].d["NewImage"].t = "dict"
  /\ HasS(r.d["dynamodb"].d["NewImage"], "UserID")
  /\ HasS(r.d["dynamodb"].d["NewImage"], "FilePath")

PayloadOf(r) ==
  [user_id |-> r.d["dynamodb"].d["NewImage"].d["UserID"].d["S"],
   file_path |-> r.d["dynamodb"].d["NewImage"].d["FilePath"].d["S"]]

RECURSIVE ExpectedPayloads(_)
\* the payloads of the well-formed INSERT records of a batch, in batch order
ExpectedPayloads(batch) ==
  IF batch = <<>> THEN <<>>
  ELSE (IF WellFormedInsert(Head(batch)) THEN <<PayloadOf(Head(batch))>> ELSE <<>>)
       \o ExpectedPayloads(Tail(batch))

\* the records C4 speaks of: well-formed INSERTs, records with no 'dynamodb',
\* with no 'NewImage', with a field missing (or empty), and non-INSERT records
C4Kinds ==
  {InsertA, InsertB, ModifyA, NoEventName, NoDynamodb, NoNewImage, NoFilePath, EmptyUserID}

\* C4: for a batch of such records of which M are well-formed INSERTs,
\* lambda_handler returns 200, a count of M and the M payloads in batch order.
C4_CountsWellFormedInserts ==
  (procPc = "done" /\ \A i \in 1 .. Len(event) : event[i] \in C4Kinds)
  => /\ ret.t = "return"
     /\ ret.statusCode = 200
     /\ ret.body.message.n = Len(ExpectedPayloads(event))
     /\ ret.body.processed_data = ExpectedPayloads(event)

C4_Witness ==
  /\ procPc = "done"
  /\ event = <<ModifyA, InsertA, NoDynamodb>>
  /\ ret.t = "return"
  /\ ret.body.message.n = 1

\* C5: one bad record never aborts the batch: lambda_handler reaches its
\* return for every batch, with every valid record of the batch in
\* processed_data.
C5_BadRecordNeverAborts ==
  procPc = "done"
  => /\ ret.t = "return"
     /\ ret.body.processed_data = ExpectedPayloads(event)

====
